---------------------------- MODULE Spec2Model ----------------------------
(***************************************************************************)
(* A model of netaddr.eui: the EUI (EUI-48 / EUI-64) identifier, the OUI   *)
(* and IAB organisational identifiers and their registry lookup.           *)
(*                                                                         *)
(* Python integers are unbounded and the values of this module go up to    *)
(* 2^64, so an unsigned integer is modelled as its base-256 numeral: a     *)
(* big-endian sequence of digits 0..255 without leading zeros (<<>> is 0). *)
(* Text is a sequence of one-character strings.                            *)
(***************************************************************************)
EXTENDS Integers, Sequences, FiniteSets, TLC

VARIABLES
    eui,        \* the EUI object under test, NoEui before construction
    other,      \* a second EUI object: an operand or a returned object
    last,       \* the last call: its name, its arguments and its outcome
    registry,   \* the IEEE registries in use
    arg         \* the argument drawn for a call on a function or constructor

vars == <<eui, other, last, registry, arg>>

\* Python's None, where the value is a name
None == "None"

\* Python's None, where the value is a version
NoVersion == 0

(***************************************************************************)
(* Evaluation order.  Python evaluates an argument once, before the call.  *)
(* ByValue(F, x) is F(x) with x evaluated first.                           *)
(***************************************************************************)
ByValue(F(_), x) == CHOOSE r \in {F(v) : v \in {x}} : TRUE

(***************************************************************************)
(* Unsigned integer arithmetic on base-256 numerals.                       *)
(***************************************************************************)
Byte == 0..255

Zeros(n) == [i \in 1..n |-> 0]

\* the numeral without its leading zeros
Norm(s) ==
    IF \A i \in 1..Len(s) : s[i] = 0 THEN <<>>
    ELSE SubSeq(s, CHOOSE i \in 1..Len(s) : s[i] # 0 /\ \A j \in 1..(i - 1) : s[j] = 0,
                Len(s))

RECURSIVE FromInt(_)
FromInt(n) ==
    IF n = 0 THEN <<>> ELSE Append(FromInt(n \div 256), n % 256)

\* the number written by the first k digits of s
RECURSIVE ToIntUpTo(_, _)
ToIntUpTo(s, k) == IF k = 0 THEN 0 ELSE ToIntUpTo(s, k - 1) * 256 + s[k]

ToInt(s) == ToIntUpTo(s, Len(s))

PadTo(s, n) == IF Len(s) >= n THEN s ELSE Zeros(n - Len(s)) \o s

\* a < b for numerals of one length
LexLt(a, b) ==
    \E i \in 1..Len(a) : a[i] < b[i] /\ \A j \in 1..(i - 1) : a[j] = b[j]

BigLt(a, b) ==
    IF Len(a) # Len(b) THEN Len(a) < Len(b) ELSE LexLt(a, b)

BigLeq(a, b) == a = b \/ BigLt(a, b)

RECURSIVE Pow2(_)
Pow2(k) == IF k = 0 THEN 1 ELSE 2 * Pow2(k - 1)

\* 2^bits - 1, for bits a multiple of 8
AllOnes(bits) == [i \in 1..(bits \div 8) |-> 255]

\* v >> k
ShiftRight(v, k) ==
    LET q == k \div 8
        r == k % 8
        n == IF q >= Len(v) THEN 0 ELSE Len(v) - q
    IN  Norm([i \in 1..n |->
                (v[i] \div Pow2(r))
                + ((IF i = 1 THEN 0 ELSE v[i - 1]) % Pow2(r)) * Pow2(8 - r)])

RECURSIVE OrByte(_, _)
OrByte(x, y) ==
    IF x = 0 THEN y
    ELSE IF y = 0 THEN x
    ELSE 2 * OrByte(x \div 2, y \div 2) + (IF (x % 2) + (y % 2) > 0 THEN 1 ELSE 0)

RECURSIVE XorByte(_, _)
XorByte(x, y) ==
    IF x = 0 THEN y
    ELSE IF y = 0 THEN x
    ELSE 2 * XorByte(x \div 2, y \div 2) + (((x % 2) + (y % 2)) % 2)

RECURSIVE AndByte(_, _)
AndByte(x, y) ==
    IF x = 0 \/ y = 0 THEN 0
    ELSE 2 * AndByte(x \div 2, y \div 2) + ((x % 2) * (y % 2))

Max(x, y) == IF x > y THEN x ELSE y

Min(x, y) == IF x < y THEN x ELSE y

\* digit i of the numeral s written with n digits
DigitOf(s, n, i) == IF i <= n - Len(s) THEN 0 ELSE s[i - (n - Len(s))]

BigOr(a, b) ==
    Norm([i \in 1..Max(Len(a), Len(b)) |->
            OrByte(DigitOf(a, Max(Len(a), Len(b)), i),
                   DigitOf(b, Max(Len(a), Len(b)), i))])

BigXor(a, b) ==
    Norm([i \in 1..Max(Len(a), Len(b)) |->
            XorByte(DigitOf(a, Max(Len(a), Len(b)), i),
                    DigitOf(b, Max(Len(a), Len(b)), i))])

BigAnd(a, b) ==
    Norm([i \in 1..Max(Len(a), Len(b)) |->
            AndByte(DigitOf(a, Max(Len(a), Len(b)), i),
                    DigitOf(b, Max(Len(a), Len(b)), i))])

\* the borrow out of the k least significant digits of a - b, a of n digits
RECURSIVE Borrow(_, _, _, _)
Borrow(a, b, n, k) ==
    IF k = 0 THEN 0
    ELSE IF a[n - k + 1] - DigitOf(b, n, n - k + 1) - Borrow(a, b, n, k - 1) < 0
    THEN 1 ELSE 0

\* a - b for a >= b: schoolbook subtraction
BigSub(a, b) ==
    Norm([i \in 1..Len(a) |->
            (a[i] - DigitOf(b, Len(a), i) - Borrow(a, b, Len(a), Len(a) - i) + 256)
            % 256])

\* the carry out of the k least significant digits of a * m + c
RECURSIVE Carry(_, _, _, _)
Carry(a, m, c, k) ==
    IF k = 0 THEN c
    ELSE (a[Len(a) - k + 1] * m + Carry(a, m, c, k - 1)) \div 256

\* a * m + c for small m, c: schoolbook multiplication
BigMulAdd(a, m, c) ==
    Norm(FromInt(Carry(a, m, c, Len(a)))
         \o [i \in 1..Len(a) |-> (a[i] * m + Carry(a, m, c, Len(a) - i)) % 256])

\* v << k
ShiftLeft(v, k) ==
    IF v = <<>> THEN <<>> ELSE BigMulAdd(v, Pow2(k % 8), 0) \o Zeros(k \div 8)

(***************************************************************************)
(* Results of calls: a call either returns a value or raises.              *)
(***************************************************************************)
Ok(v) == [err |-> None, val |-> v]

Raise(e) == [err |-> e, val |-> None]

(***************************************************************************)
(* Text: hexadecimal digits and separators.                                *)
(***************************************************************************)
LowerHex == <<"0", "1", "2", "3", "4", "5", "6", "7", "8", "9",
              "a", "b", "c", "d", "e", "f">>

UpperHex == <<"0", "1", "2", "3", "4", "5", "6", "7", "8", "9",
              "A", "B", "C", "D", "E", "F">>

IsHexChar(c) == \E i \in 1..16 : c = LowerHex[i] \/ c = UpperHex[i]

IsDecChar(c) == \E i \in 1..10 : c = LowerHex[i]

HexVal(c) == (CHOOSE i \in 1..16 : c = LowerHex[i] \/ c = UpperHex[i]) - 1

Separators == {"-", ":", "."}

\* "%02x" % w  (upper: "%02X")
Hex2(w, upper) ==
    IF upper THEN <<UpperHex[(w \div 16) + 1], UpperHex[(w % 16) + 1]>>
    ELSE <<LowerHex[(w \div 16) + 1], LowerHex[(w % 16) + 1]>>

\* the concatenation of the first k sequences of seqs
RECURSIVE ConcatUpTo(_, _)
ConcatUpTo(seqs, k) ==
    IF k = 0 THEN <<>> ELSE ConcatUpTo(seqs, k - 1) \o seqs[k]

Concat(seqs) == ConcatUpTo(seqs, Len(seqs))

\* sep.join(parts)
Join(parts, sep) ==
    Concat([k \in 1..Len(parts) |-> IF k = 1 THEN parts[1] ELSE sep \o parts[k]])

\* the position of the k-th sep of text; 0 for k = 0, past the end for the last
SepAt(text, sep, k) ==
    IF k = 0 THEN 0
    ELSE IF k > Cardinality({i \in 1..Len(text) : text[i] = sep}) THEN Len(text) + 1
    ELSE CHOOSE i \in 1..Len(text) :
            /\ text[i] = sep
            /\ Cardinality({j \in 1..(i - 1) : text[j] = sep}) = k - 1

\* text.split(sep)
Split(text, sep) ==
    [k \in 1..(Cardinality({i \in 1..Len(text) : text[i] = sep}) + 1) |->
        SubSeq(text, SepAt(text, sep, k - 1) + 1, SepAt(text, sep, k) - 1)]

\* the bytes written by an even number of hexadecimal digits
HexBytes(digits) ==
    [k \in 1..(Len(digits) \div 2) |->
        HexVal(digits[2 * k - 1]) * 16 + HexVal(digits[2 * k])]

\* the number written by the decimal digits of text from position i on
RECURSIVE DecValue(_, _, _)
DecValue(text, i, acc) ==
    IF i > Len(text) THEN acc
    ELSE ByValue(LAMBDA v : DecValue(text, i + 1, v),
                 BigMulAdd(acc, 10, HexVal(text[i])))

\* Python int(text): an optional sign and decimal digits, else ValueError
PyIntOfText(text) ==
    LET signed == text # <<>> /\ text[1] \in {"-", "+"}
        first == IF signed THEN 2 ELSE 1
    IN  IF first <= Len(text) /\ \A i \in first..Len(text) : IsDecChar(text[i])
        THEN ByValue(LAMBDA v : Ok([neg |-> signed /\ text[1] = "-" /\ v # <<>>,
                                    mag |-> v]),
                     DecValue(text, first, <<>>))
        ELSE Raise("ValueError")

(***************************************************************************)
(* Word codec of one version (netaddr.strategy.eui48 / eui64) and the      *)
(* dialects.  A module is named by its version, 48 or 64.                  *)
(***************************************************************************)
word_size == 8

max_word == Pow2(word_size) - 1

num_words(module) == module \div word_size

max_int(module) == AllOnes(module)

mac_eui48 == [word_sep |-> "-", group |-> 1, upper |-> TRUE]

mac_unix == [word_sep |-> ":", group |-> 1, upper |-> FALSE]

mac_cisco == [word_sep |-> ".", group |-> 2, upper |-> FALSE]

\* Python's None, where the value is a dialect
NoDialect == [word_sep |-> "", group |-> 0, upper |-> FALSE]

Dialects == {mac_eui48, mac_unix, mac_cisco}

\* the words of int_val, most significant first
int_to_words(module, int_val) ==
    IF BigLeq(int_val, max_int(module))
    THEN Ok(PadTo(int_val, num_words(module)))
    ELSE Raise("RangeError")

valid_words(module, words) ==
    /\ Len(words) = num_words(module)
    /\ \A i \in 1..Len(words) : 0 <= words[i] /\ words[i] <= max_word

words_to_int(module, words) ==
    IF valid_words(module, words) THEN Ok(Norm(words)) ELSE Raise("RangeError")

\* the text of the words in a dialect: groups of dialect.group words
WordsToStr(words, dialect) ==
    Join([k \in 1..(Len(words) \div dialect.group) |->
             Concat([j \in 1..dialect.group |->
                        Hex2(words[(k - 1) * dialect.group + j], dialect.upper)])],
         <<dialect.word_sep>>)

int_to_str(module, int_val, dialect) ==
    ByValue(LAMBDA words : WordsToStr(words, dialect),
            int_to_words(module, int_val).val)

\* the words written by the parts of a text, each a group of g words
PartsToWords(module, parts, g) ==
    IF /\ Len(parts) * g = num_words(module)
       /\ \A k \in 1..Len(parts) :
             /\ Len(parts[k]) >= 1
             /\ Len(parts[k]) <= 2 * g
             /\ \A i \in 1..Len(parts[k]) : IsHexChar(parts[k][i])
    THEN Ok(Concat([k \in 1..Len(parts) |->
                      HexBytes([i \in 1..(2 * g - Len(parts[k])) |-> "0"]
                               \o parts[k])]))
    ELSE Raise("AddrFormatError")

GroupsToWords(module, text, sep, g) ==
    ByValue(LAMBDA parts : PartsToWords(module, parts, g), Split(text, sep))

\* the words a text writes under the version's accepted dialects
TextToWords(module, text) ==
    IF \E i \in 1..Len(text) : ~IsHexChar(text[i]) /\ text[i] \notin Separators
    THEN Raise("AddrFormatError")
    ELSE IF \A i \in 1..Len(text) : text[i] \notin Separators
    THEN IF Len(text) = 2 * num_words(module)
         THEN Ok(HexBytes(text)) ELSE Raise("AddrFormatError")
    ELSE IF \A i \in 1..Len(text) : text[i] \in Separators => text[i] = "-"
    THEN GroupsToWords(module, text, "-", 1)
    ELSE IF \A i \in 1..Len(text) : text[i] \in Separators => text[i] = ":"
    THEN GroupsToWords(module, text, ":", 1)
    ELSE IF \A i \in 1..Len(text) : text[i] \in Separators => text[i] = "."
    THEN GroupsToWords(module, text, ".", 2)
    ELSE Raise("AddrFormatError")

\* parse text under the version's accepted dialects
str_to_int(module, text) ==
    ByValue(LAMBDA words : IF words.err # None THEN words
                           ELSE words_to_int(module, words.val),
            TextToWords(module, text))

(***************************************************************************)
(* Python values passed to the constructors.  An address argument is a     *)
(* text, an integer (sign and magnitude) or an EUI object.                 *)
(***************************************************************************)
StrArg(text) == [kind |-> "str", text |-> text]

IntArg(mag) == [kind |-> "int", neg |-> FALSE, mag |-> mag]

NegArg(mag) == [kind |-> "int", neg |-> TRUE, mag |-> mag]

EuiArg(obj) == [kind |-> "eui", obj |-> obj]

\* n <= addr and addr <= n for an integer n >= 0: numeric between integers;
\* Python 2 orders an integer before any text or object
IntLeqArg(n, addr) ==
    IF addr.kind = "int" THEN ~addr.neg /\ BigLeq(n, addr.mag) ELSE TRUE

ArgLeqInt(addr, n) ==
    IF addr.kind = "int" THEN addr.neg \/ BigLeq(addr.mag, n) ELSE FALSE

IntLtArg(n, addr) == ~ArgLeqInt(addr, n)

\* int(value)
PyInt(value) ==
    IF value.kind = "int" THEN Ok([neg |-> value.neg, mag |-> value.mag])
    ELSE IF value.kind = "eui" THEN Ok([neg |-> FALSE, mag |-> value.obj.value])
    ELSE PyIntOfText(value.text)

\* module.str_to_int(value) for any argument: only text parses
str_to_int_arg(module, value) ==
    IF value.kind = "str" THEN
        LET r == str_to_int(module, value.text)
        IN  IF r.err = None THEN r ELSE Raise("AddrFormatError")
    ELSE Raise("AddrFormatError")

InRange(iv, module) == ~iv.neg /\ BigLeq(iv.mag, max_int(module))

(***************************************************************************)
(* class EUI.  An object is [value, module, dialect].                      *)
(***************************************************************************)
\* one round of the version detection loop of _set_value
DetectWith(module, value) ==
    LET parsed == str_to_int_arg(module, value)
        number == PyInt(value)
    IN  IF parsed.err = None THEN Ok(parsed.val)
        ELSE IF number.err = None /\ InRange(number.val, module)
        THEN Ok(number.val.mag)
        ELSE Raise("continue")

\* the first module of (eui48, eui64) that takes the value decides
DetectVersion(self, value) ==
    LET first == DetectWith(48, value)
        second == DetectWith(64, value)
    IN  IF first.err = None
        THEN Ok([self EXCEPT !.value = first.val, !.module = 48])
        ELSE IF second.err = None
        THEN Ok([self EXCEPT !.value = second.val, !.module = 64])
        ELSE Raise("AddrFormatError")

SetExplicitUnchecked(self, value) ==
    LET parsed == str_to_int(self.module, value.text)
        number == PyInt(value)
    IN  IF value.kind = "str" THEN
            IF parsed.err = None THEN Ok([self EXCEPT !.value = parsed.val])
            ELSE Raise("AddrFormatError")
        ELSE IF number.err # None THEN Raise(number.err)
        ELSE Ok([self EXCEPT !.value = number.val.mag])

\* the version is explicit
SetExplicit(self, value) ==
    LET parsed == str_to_int(self.module, value.text)
        number == PyInt(value)
    IN  IF value.kind = "str" THEN
            IF parsed.err = None THEN Ok([self EXCEPT !.value = parsed.val])
            ELSE Raise("AddrFormatError")
        ELSE IF number.err # None THEN Raise(number.err)
        ELSE IF InRange(number.val, self.module)
        THEN Ok([self EXCEPT !.value = number.val.mag])
        ELSE Raise("AddrFormatError")

_set_value(self, value) ==
    IF self.module = NoVersion THEN DetectVersion(self, value)
    ELSE SetExplicit(self, value)

InitIgnoresHint(addr, version, dialect) ==
    IF version # NoVersion /\ version \notin {48, 64} THEN Raise("ValueError")
    ELSE _set_value([value |-> <<>>,
                     module |-> NoVersion,
                     dialect |-> IF dialect = NoDialect THEN mac_eui48 ELSE dialect],
                    addr)

EUI__init__(addr, version, dialect) ==
    IF version # NoVersion /\ version \notin {48, 64} THEN Raise("ValueError")
    ELSE LET chosen ==
                 IF version # NoVersion THEN version
                 ELSE IF IntLeqArg(<<>>, addr) /\ ArgLeqInt(addr, AllOnes(48)) THEN 48
                 ELSE IF IntLtArg(AllOnes(48), addr) /\ ArgLeqInt(addr, AllOnes(64))
                 THEN 64
                 ELSE NoVersion
         IN  _set_value([value |-> <<>>,
                         module |-> chosen,
                         dialect |-> IF dialect = NoDialect THEN mac_eui48 ELSE dialect],
                        addr)

_set_dialect(self, value) ==
    IF value \notin Dialects THEN Raise("TypeError")
    ELSE Ok([self EXCEPT !.dialect = value])

version(self) == self.module

Words(self) == int_to_words(self.module, self.value).val

IntIdx(i) == [kind |-> "int", i |-> i]

SliceIdx(start, stop) == [kind |-> "slice", start |-> start, stop |-> stop]

__getitem__(self, idx) ==
    IF idx.kind = "int" THEN
        IF ~(-num_words(self.module) <= idx.i /\ idx.i <= num_words(self.module) - 1)
        THEN Raise("IndexError")
        ELSE Ok(Words(self)[IF idx.i < 0 THEN Len(Words(self)) + idx.i + 1
                            ELSE idx.i + 1])
    ELSE IF idx.kind = "slice" THEN
        Ok(SubSeq(Words(self), idx.start + 1, Min(idx.stop, Len(Words(self)))))
    ELSE Raise("TypeError")

SetItemAcceptsNegative(self, idx, value) ==
    IF idx.kind # "int" THEN Raise("NotImplementedError")
    ELSE IF ~(-num_words(self.module) <= idx.i /\ idx.i <= num_words(self.module) - 1)
    THEN Raise("IndexError")
    ELSE IF ~(0 <= value /\ value <= max_word) THEN Raise("IndexError")
    ELSE Ok([self EXCEPT !.value =
                Norm([Words(self) EXCEPT
                        ![IF idx.i < 0 THEN Len(Words(self)) + idx.i + 1
                          ELSE idx.i + 1] = value])])

__setitem__(self, idx, value) ==
    IF idx.kind = "slice" THEN Raise("NotImplementedError")
    ELSE IF idx.kind # "int" THEN Raise("TypeError")
    ELSE IF ~(0 <= idx.i /\ idx.i <= num_words(self.module) - 1)
    THEN Raise("IndexError")
    ELSE IF ~(0 <= value /\ value <= max_word) THEN Raise("IndexError")
    ELSE LET words == [Words(self) EXCEPT ![idx.i + 1] = value]
             int_val == words_to_int(self.module, words)
         IN  IF int_val.err # None THEN int_val
             ELSE Ok([self EXCEPT !.value = int_val.val])

__str__(self) == int_to_str(self.module, self.value, self.dialect)

(***************************************************************************)
(* EUI: conversion to EUI-64 and the IPv6 link-local address.              *)
(***************************************************************************)
\* ["%02x" % i for i in words]
HexWords(words) == [k \in 1..Len(words) |-> Hex2(words[k], FALSE)]

\* the text of the words with two words inserted after the third
ExpandedText(self, filler) ==
    Join(HexWords(__getitem__(self, SliceIdx(0, 3)).val)
         \o filler
         \o HexWords(__getitem__(self, SliceIdx(3, 6)).val),
         <<"-">>)

\* EUI(text)
EuiOfText(text) == EUI__init__(StrArg(text), NoVersion, NoDialect)

Eui64FillerSwapped(self) ==
    IF version(self) = 48
    THEN ByValue(EuiOfText, ExpandedText(self, <<<<"f", "e">>, <<"f", "f">>>>))
    ELSE ByValue(EuiOfText, __str__(self))

eui64(self) ==
    IF version(self) = 48
    THEN ByValue(EuiOfText, ExpandedText(self, <<<<"f", "f">>, <<"f", "e">>>>))
    ELSE ByValue(EuiOfText, __str__(self))

\* the general IP address type: takes the text of eight 4-digit groups
IPAddress(addr) ==
    ByValue(LAMBDA parts :
                IF /\ Len(parts) = 8
                   /\ \A k \in 1..8 : /\ Len(parts[k]) = 4
                                      /\ \A i \in 1..4 : IsHexChar(parts[k][i])
                THEN Ok(addr) ELSE Raise("AddrFormatError"),
            Split(addr, ":"))

LinkLocalPrefix ==
    <<"f", "e", "8", "0", ":", "0", "0", "0", "0", ":",
      "0", "0", "0", "0", ":", "0", "0", "0", "0", ":">>

\* self[0] += 2
AddTwoToFirst(self) ==
    LET first == __getitem__(self, IntIdx(0))
    IN  IF first.err # None THEN first
        ELSE __setitem__(self, IntIdx(0), first.val + 2)

SubtractTwoSkipped(self) == Ok(self)

\* self[0] -= 2
SubtractTwoFromFirst(self) ==
    LET first == __getitem__(self, IntIdx(0))
    IN  IF first.err # None THEN first
        ELSE __setitem__(self, IntIdx(0), first.val - 2)

\* list(self): the words self[0], self[1], ... up to the first IndexError
ListOf(self) ==
    [i \in 1..(CHOOSE k \in 0..num_words(self.module) :
                  /\ \A j \in 0..(k - 1) : __getitem__(self, IntIdx(j)).err = None
                  /\ __getitem__(self, IntIdx(k)).err # None) |->
        __getitem__(self, IntIdx(i - 1)).val]

\* the groups of the address text, from the modified EUI
LinkLocalSuffix(self) ==
    LET suffix ==
            IF version(self) = 48
            THEN HexWords(__getitem__(self, SliceIdx(0, 3)).val)
                 \o <<<<"f", "f">>, <<"f", "e">>>>
                 \o HexWords(__getitem__(self, SliceIdx(3, 6)).val)
            ELSE HexWords(ListOf(self))
    IN  [k \in 1..(Len(suffix) \div 2) |->
            Hex2(HexBytes(suffix[2 * k - 1])[1], FALSE)
            \o Hex2(HexBytes(suffix[2 * k])[1], FALSE)]

\* the rest of the call, on the EUI with 2 added to its first word
LinkLocalOf(modified) ==
    ByValue(LAMBDA suffix :
                ByValue(LAMBDA restored :
                            IF restored.err # None
                            THEN [self |-> modified, ret |-> Raise(restored.err)]
                            ELSE [self |-> restored.val,
                                  ret |-> IPAddress(LinkLocalPrefix
                                                    \o Join(suffix, <<":">>))],
                        SubtractTwoFromFirst(modified)),
            LinkLocalSuffix(modified))

\* returns the object as the call leaves it and the call's result
ipv6_link_local(self) ==
    ByValue(LAMBDA added :
                IF added.err # None THEN [self |-> self, ret |-> Raise(added.err)]
                ELSE LinkLocalOf(added.val),
            AddTwoToFirst(self))

(***************************************************************************)
(* The IEEE registries (netaddr.eui.ieee): an index from identifier to its *)
(* (offset, size) spans and the file the spans are read from.  A line of   *)
(* the file is its sequence of whitespace-separated tokens.                *)
(***************************************************************************)
Registry1 ==
    [oui_index |->
        (FromInt(20674) :> <<<<0, 3>>>>) @@
        (FromInt(6945) :> <<<<3, 2>>>>) @@
        (FromInt(524336) :> <<<<5, 3>>, <<20, 2>>, <<9, 4>>>>),
     iab_index |->
        (FromInt(84681541) :> <<<<0, 4>>, <<9, 2>>>>) @@
        (FromInt(84680704) :> <<<<4, 3>>>>),
     data |->
        (<<0, 3>> :> << <<"00-50-C2", "(hex)", "IEEE", "REGISTRATION", "AUTHORITY">>,
                        <<"0050C2", "(base", "16)", "IEEE", "REGISTRATION", "AUTHORITY">>,
                        <<"445", "HOES", "LANE">> >>) @@
        (<<3, 2>> :> << <<"00-1B-21", "(hex)", "Intel", "Corporate">>,
                        <<>> >>) @@
        (<<5, 3>> :> << <<"08-00-30", "(hex)", "NETWORK", "RESEARCH", "CORPORATION">>,
                        <<"2380", "N.", "ROSE", "AVENUE">>,
                        <<"OXNARD", "CA", "93010">> >>) @@
        (<<20, 2>> :> << <<"08-00-30", "(hex)", "CERN">>,
                         <<"CH-1211", "GENEVE", "23">> >>) @@
        (<<9, 4>> :> << <<"08-00-30", "(hex)", "ROYAL", "MELBOURNE", "INST", "OF", "TECH">>,
                        <<"080030", "(base", "16)">>,
                        <<>>,
                        <<"GPO", "BOX", "2476V">> >>) @@
        (<<0, 4>> :> << <<"00-50-C2", "(hex)", "The", "Morey", "Corporation">>,
                        <<"345000-345FFF", "(base", "16)", "The", "Morey", "Corporation">>,
                        <<"100", "Morey", "Drive">>,
                        <<"Woodridge", "IL", "60517">> >>) @@
        (<<9, 2>> :> << <<"00-50-C2", "(hex)", "SUPERSEDED">>,
                        <<"UNKNOWN">> >>) @@
        (<<4, 3>> :> << <<"00-50-C2", "(hex)", "T.L.S.", "Corp.">>,
                        <<"000000-000FFF", "(base", "16)", "T.L.S.", "Corp.">>,
                        <<"1241", "Superieor", "Ave", "E">> >>)]

\* the same registry with FF-FF-FF registered as well
Registry2 ==
    [Registry1 EXCEPT
        !.oui_index = (FromInt(16777215) :> <<<<3, 2>>>>) @@ Registry1.oui_index]

Registries == {Registry1, Registry2}

HasHexMark(line) == \E i \in 1..Len(line) : line[i] = "(hex)"

HasBase16Mark(line) ==
    \E i \in 1..(Len(line) - 1) : line[i] = "(base" /\ line[i + 1] = "16)"

\* int(digits, 16)
HexValue(digits) ==
    IF digits # <<>> /\ \A i \in 1..Len(digits) : IsHexChar(digits[i])
    THEN Ok(Norm(HexBytes([i \in 1..(Len(digits) % 2) |-> "0"] \o digits)))
    ELSE Raise("ValueError")

\* int(text.replace('-', ''), 16)
HexIntOfText(text) == ByValue(HexValue, Concat(Split(text, "-")))

\* the low n bytes of value, most significant first
LowBytes(value, n) ==
    LET p == PadTo(value, n) IN SubSeq(p, Len(p) - n + 1, Len(p))

(***************************************************************************)
(* class OUI.  An object is [value, records].                              *)
(***************************************************************************)
OUI_MAX == 16777215

OUI__str__(value) ==
    Join([k \in 1..3 |-> Hex2(LowBytes(value, 3)[k], TRUE)], <<"-">>)

RECURSIVE ParseLines(_, _, _, _)
ParseLines(lines, record, value, label) ==
    IF lines = <<>> THEN record
    ELSE LET line == Head(lines)
             next ==
                 IF line = <<>> THEN record
                 ELSE IF HasHexMark(line)
                 THEN [record EXCEPT !.idx = value,
                                     !.org = SubSeq(line, 3, Len(line)),
                                     !.label = label]
                 ELSE IF HasBase16Mark(line) THEN record
                 ELSE [record EXCEPT !.address = Append(@, line)]
         IN  ParseLines(Tail(lines), next, value, label)

\* the record appended by OUI._parse_data(data, offset, size)
OUI_parse_data(value, data, offset, size) ==
    ParseLines(data,
               [idx |-> <<>>, label |-> <<>>, org |-> <<>>, address |-> <<>>,
                offset |-> offset, size |-> size],
               value, OUI__str__(value))

OuiRangeUnchecked(oui) ==
    IF oui.kind = "str" THEN HexIntOfText(oui.text)
    ELSE IF oui.kind = "int" THEN Ok(oui.mag)
    ELSE Raise("TypeError")

\* the value an OUI argument denotes
OUI_value(oui) ==
    IF oui.kind = "str" THEN HexIntOfText(oui.text)
    ELSE IF oui.kind = "int" THEN
        IF ~oui.neg /\ BigLeq(oui.mag, FromInt(OUI_MAX))
        THEN Ok(oui.mag) ELSE Raise("ValueError")
    ELSE Raise("TypeError")

OuiFirstSpanOnly(reg, value) ==
    LET spans == reg.oui_index[value]
    IN  [res |-> Ok([value |-> value,
                     records |-> <<OUI_parse_data(value, reg.data[spans[1]],
                                                  spans[1][1], spans[1][2])>>]),
         reads |-> <<spans[1]>>]

\* the lookup of OUI.__init__: one record per span of the index
OUI_lookup(reg, value) ==
    LET spans == reg.oui_index[value]
    IN  [res |-> Ok([value |-> value,
                     records |-> [k \in 1..Len(spans) |->
                                     OUI_parse_data(value, reg.data[spans[k]],
                                                    spans[k][1], spans[k][2])]]),
         reads |-> spans]

\* returns the call's result and the spans read from the registry file
OUI__init__(reg, oui) ==
    LET value == OUI_value(oui)
    IN  IF value.err # None THEN [res |-> Raise(value.err), reads |-> <<>>]
        ELSE IF value.val \in DOMAIN reg.oui_index
        THEN OUI_lookup(reg, value.val)
        ELSE [res |-> Raise("NotRegisteredError"), reads |-> <<>>]

(***************************************************************************)
(* class IAB.  An object is [value, record].                               *)
(***************************************************************************)
IAB_MIN == 84680704

IAB_MAX == 84684799

InIabRange(v) == BigLeq(FromInt(IAB_MIN), v) /\ BigLeq(v, FromInt(IAB_MAX))

SplitNeverStrict(eui_int, strict) ==
    IF InIabRange(eui_int) THEN Ok(<<eui_int, <<>>>>)
    ELSE IF InIabRange(ShiftRight(eui_int, 12))
    THEN Ok(<<ShiftRight(eui_int, 12), ShiftRight(ShiftLeft(eui_int, 4), 4)>>)
    ELSE Raise("ValueError")

split_iab_mac(eui_int, strict) ==
    IF InIabRange(eui_int) THEN Ok(<<eui_int, <<>>>>)
    ELSE LET user_mask == FromInt(Pow2(12) - 1)
             iab_mask == BigXor(AllOnes(48), user_mask)
             iab_bits == ShiftRight(eui_int, 12)
             user_bits == BigSub(BigOr(eui_int, iab_mask), iab_mask)
         IN  IF InIabRange(iab_bits) THEN
                 IF strict /\ user_bits # <<>> THEN Raise("ValueError")
                 ELSE Ok(<<iab_bits, user_bits>>)
             ELSE Raise("ValueError")

IAB__str__(value) ==
    Join([k \in 1..6 |-> Hex2(LowBytes(ShiftLeft(value, 12), 6)[k], TRUE)], <<"-">>)

\* the record left by IAB._parse_data(data, offset, size)
IAB_parse_data(value, data, offset, size) ==
    ParseLines(data,
               [idx |-> <<>>, label |-> <<>>, org |-> <<>>, address |-> <<>>,
                offset |-> offset, size |-> size],
               value, IAB__str__(value))

\* the value an IAB argument denotes
IAB_value(iab, strict) ==
    IF iab.kind = "str" THEN
        LET int_val == HexIntOfText(iab.text)
        IN  IF int_val.err # None THEN int_val
            ELSE split_iab_mac(int_val.val, strict)
    ELSE IF iab.kind = "int" THEN
        IF iab.neg THEN Raise("ValueError") ELSE split_iab_mac(iab.mag, strict)
    ELSE Raise("TypeError")

IabLastSpan(reg, value) ==
    LET spans == reg.iab_index[value]
        span == spans[Len(spans)]
    IN  [res |-> Ok([value |-> value,
                     record |-> IAB_parse_data(value, reg.data[span],
                                               span[1], span[2])]),
         reads |-> <<span>>]

\* the lookup of IAB.__init__: the record of the first span of the index
IAB_lookup(reg, value) ==
    LET span == reg.iab_index[value][1]
    IN  [res |-> Ok([value |-> value,
                     record |-> IAB_parse_data(value, reg.data[span],
                                               span[1], span[2])]),
         reads |-> <<span>>]

\* returns the call's result and the spans read from the registry file
IAB__init__(reg, iab, strict) ==
    LET value == IAB_value(iab, strict)
    IN  IF value.err # None THEN [res |-> Raise(value.err), reads |-> <<>>]
        ELSE IF value.val[1] \in DOMAIN reg.iab_index
        THEN IAB_lookup(reg, value.val[1])
        ELSE [res |-> Raise("NotRegisteredError"), reads |-> <<>>]

(***************************************************************************)
(* EUI: organisational identifiers, comparison and hash.                   *)
(***************************************************************************)
oui(reg, self) ==
    IF self.module = 48
    THEN OUI__init__(reg, IntArg(ShiftRight(self.value, 24)))
    ELSE OUI__init__(reg, IntArg(ShiftRight(self.value, 40)))

IsIabLowBoundOnly(self) == BigLeq(FromInt(IAB_MIN), ShiftRight(self.value, 12))

is_iab(self) == InIabRange(ShiftRight(self.value, 12))

\* Python's None, where the value is an OUI object
NoOui == [value |-> <<>>, records |-> <<>>]

\* Python's None, where the value is an IAB object
NoIab ==
    [value |-> <<>>,
     record |-> [idx |-> <<>>, label |-> <<>>, org |-> <<>>, address |-> <<>>,
                 offset |-> -1, size |-> -1]]

\* None without a lookup unless is_iab()
iab(reg, self) ==
    IF is_iab(self)
    THEN IAB__init__(reg, IntArg(ShiftRight(self.value, 12)), FALSE)
    ELSE [res |-> Ok(NoIab), reads |-> <<>>]

\* Python's comparison of the tuples (version, value): decided by the first
\* position where they differ
TupleLt(a, b) ==
    IF a[1] # b[1] THEN a[1] < b[1] ELSE BigLt(a[2], b[2])

EqIgnoresVersion(a, b) == a.value = b.value

__eq__(a, b) == <<version(a), a.value>> = <<version(b), b.value>>

__ne__(a, b) == <<version(a), a.value>> # <<version(b), b.value>>

LtIgnoresVersion(a, b) == BigLt(a.value, b.value)

__lt__(a, b) == TupleLt(<<version(a), a.value>>, <<version(b), b.value>>)

__le__(a, b) ==
    \/ TupleLt(<<version(a), a.value>>, <<version(b), b.value>>)
    \/ <<version(a), a.value>> = <<version(b), b.value>>

__gt__(a, b) == TupleLt(<<version(b), b.value>>, <<version(a), a.value>>)

__ge__(a, b) ==
    \/ TupleLt(<<version(b), b.value>>, <<version(a), a.value>>)
    \/ <<version(a), a.value>> = <<version(b), b.value>>

\* hash of a tuple: a fixed function of the hashes of its items
RECURSIVE DigitSum(_)
DigitSum(s) == IF s = <<>> THEN 0 ELSE (Head(s) + 31 * DigitSum(Tail(s))) % 65521

TupleHash(t) == (t[1] * 1000003 + DigitSum(t[2])) % 65521

__hash__(self) == TupleHash(<<version(self), self.value>>)

(***************************************************************************)
(* The arguments the calls are tried on.                                   *)
(***************************************************************************)
\* the first-octet values set(0, v) is tried with
FirstOctets == {2, 253, 254, 255}

Mac1 == Norm(<<0, 27, 33, 60, 175, 254>>)

Mac2 == Norm(<<0, 80, 194, 52, 80, 0>>)

Mac3 == Norm(<<0, 80, 194, 170, 187, 204>>)

Mac4 == Norm(<<0, 17, 34, 51, 68, 85>>)

Eui64Of3 == Norm(<<0, 80, 194, 255, 254, 170, 187, 204>>)

SeedValues ==
    {<<>>, Mac1, Mac2, Mac3, Mac4, AllOnes(48), <<1, 0, 0, 0, 0, 0, 0>>, Eui64Of3,
     AllOnes(64), <<1, 0, 0, 0, 0, 0, 0, 0, 0>>}

IntArgs == {IntArg(v) : v \in SeedValues} \cup {NegArg(<<1>>)}

\* texts written in a dialect, and texts that are bare digits or no address
TextArgs ==
    {StrArg(int_to_str(48, Mac1, d)) : d \in Dialects}
    \cup {StrArg(int_to_str(64, Eui64Of3, d)) : d \in Dialects}
    \cup {StrArg(<<"0", "0", "1", "B", "2", "1", "3", "C", "A", "F", "F", "E">>),
          StrArg(<<"0", "0", "1", "1", "2", "2", "3", "3", "4", "4", "5", "5",
                   "6", "6", "7", "7">>),
          StrArg(<<"1", "2">>),
          StrArg(<<"-", "1">>),
          StrArg(<<"0", "0", "-", "1", "B", ":", "2", "1", "-", "3", "C", "-",
                   "A", "F", "-", "F", "E">>),
          StrArg(<<"n", "o", "t", " ", "a", "n", " ", "E", "U", "I">>)}

EuiArgs ==
    {EuiArg([value |-> Mac1, module |-> 64, dialect |-> mac_cisco]),
     EuiArg([value |-> AllOnes(64), module |-> 64, dialect |-> mac_eui48])}

AddrArgs == IntArgs \cup TextArgs \cup EuiArgs

\* the constructor calls tried: every address without a version hint, and
\* some with the hint 48, 64 or 32 or with a dialect
ConstructArgs ==
    (AddrArgs \X {NoVersion} \X {NoDialect})
    \cup ({IntArg(Mac3), IntArg(<<1, 0, 0, 0, 0, 0, 0>>),
           StrArg(int_to_str(48, Mac1, mac_unix)),
           StrArg(int_to_str(64, Eui64Of3, mac_unix))}
          \X {48} \X {NoDialect})
    \cup ({IntArg(<<>>), IntArg(Mac2), IntArg(Mac3), IntArg(AllOnes(48)),
           IntArg(<<1, 0, 0, 0, 0, 0, 0>>), IntArg(<<1, 0, 0, 0, 0, 0, 0, 0, 0>>),
           StrArg(int_to_str(48, Mac1, mac_unix)),
           StrArg(int_to_str(64, Eui64Of3, mac_unix)),
           EuiArg([value |-> Mac1, module |-> 64, dialect |-> mac_cisco])}
          \X {64} \X {NoDialect})
    \cup ({IntArg(Mac1)} \X {32} \X {NoDialect})
    \cup ({IntArg(Mac1), IntArg(Eui64Of3)} \X {NoVersion} \X {mac_cisco})

\* the values an existing EUI is reassigned
SetValueArgs ==
    {IntArg(Mac2), IntArg(<<1, 0, 0, 0, 0, 0, 0>>),
     IntArg(<<1, 0, 0, 0, 0, 0, 0, 0, 0>>), NegArg(<<1>>),
     StrArg(int_to_str(48, Mac3, mac_unix)),
     StrArg(int_to_str(64, Eui64Of3, mac_eui48)),
     EuiArg([value |-> Mac1, module |-> 64, dialect |-> mac_cisco])}

\* the largest index of a word that set(i, v) is tried on with a valid value
MaxSetIdx == 1

SetItemArgs ==
    ({IntIdx(0)} \X (FirstOctets \cup {-1, 256}))
    \cup ({IntIdx(i) : i \in 1..MaxSetIdx} \X {255})
    \cup ({IntIdx(i) : i \in {-6, -1, 6, 8}} \X {255})
    \cup ({SliceIdx(0, 2)} \X {255})

GetItemArgs ==
    {IntIdx(i) : i \in {-9, -8, -6, -1, 0, 5, 7, 8}} \cup {SliceIdx(3, 8)}

NoEui == [value |-> <<>>, module |-> NoVersion, dialect |-> NoDialect]

NoArg == [kind |-> "none"]

(***************************************************************************)
(* The life of one EUI object: it is constructed, and then any of its      *)
(* operations is called, in any order.                                     *)
(***************************************************************************)
Init ==
    /\ eui = NoEui
    /\ other = NoEui
    /\ last = [op |-> "none"]
    /\ registry = Registry1
    /\ arg = NoArg

Construct ==
    /\ last.op = "none"
    /\ \E a \in ConstructArgs :
          LET r == EUI__init__(a[1], a[2], a[3])
          IN  /\ eui' = IF r.err = None THEN r.val ELSE NoEui
              /\ last' = [op |-> "EUI", addr |-> a[1], version |-> a[2],
                          dialect |-> a[3], err |-> r.err]
    /\ UNCHANGED <<other, registry, arg>>

SetItem ==
    /\ eui # NoEui
    /\ \E a \in SetItemArgs :
          LET r == __setitem__(eui, a[1], a[2])
          IN  /\ eui' = IF r.err = None THEN r.val ELSE eui
              /\ last' = [op |-> "setitem", idx |-> a[1], value |-> a[2],
                          err |-> r.err]
    /\ UNCHANGED <<other, registry, arg>>

GetItem ==
    /\ eui # NoEui
    /\ \E idx \in GetItemArgs :
          LET r == __getitem__(eui, idx)
          IN  last' = [op |-> "getitem", idx |-> idx, err |-> r.err,
                       ret |-> IF r.err = None /\ idx.kind = "int" THEN <<r.val>>
                               ELSE IF r.err = None THEN r.val ELSE <<>>]
    /\ UNCHANGED <<eui, other, registry, arg>>

SetValue ==
    /\ eui # NoEui
    /\ \E value \in SetValueArgs :
          LET r == _set_value(eui, value)
          IN  /\ eui' = IF r.err = None THEN r.val ELSE eui
              /\ last' = [op |-> "set_value", value |-> value, err |-> r.err]
    /\ UNCHANGED <<other, registry, arg>>

SetDialect ==
    /\ eui # NoEui
    /\ \E d \in {mac_eui48, mac_cisco, NoDialect} :
          LET r == _set_dialect(eui, d)
          IN  /\ eui' = IF r.err = None THEN r.val ELSE eui
              /\ last' = [op |-> "set_dialect", dialect |-> d, err |-> r.err]
    /\ UNCHANGED <<other, registry, arg>>

LinkLocal ==
    /\ eui # NoEui
    /\ LET r == ipv6_link_local(eui)
       IN  /\ eui' = r.self
           /\ last' = [op |-> "ipv6_link_local", pre |-> eui, err |-> r.ret.err,
                       ret |-> IF r.ret.err = None THEN r.ret.val ELSE <<>>]
    /\ UNCHANGED <<other, registry, arg>>

Eui64 ==
    /\ eui # NoEui
    /\ LET r == eui64(eui)
       IN  last' = [op |-> "eui64", pre |-> eui, err |-> r.err,
                    ret |-> IF r.err = None THEN r.val ELSE NoEui]
    /\ UNCHANGED <<eui, other, registry, arg>>

Iab ==
    /\ eui # NoEui
    /\ LET r == iab(registry, eui)
       IN  last' = [op |-> "iab", pre |-> eui, is_iab |-> is_iab(eui),
                    err |-> r.res.err,
                    ret |-> IF r.res.err = None THEN r.res.val ELSE NoIab,
                    reads |-> r.reads]
    /\ UNCHANGED <<eui, other, registry, arg>>

Oui ==
    /\ eui # NoEui
    /\ LET r == oui(registry, eui)
       IN  last' = [op |-> "oui", pre |-> eui, err |-> r.res.err,
                    ret |-> IF r.res.err = None THEN r.res.val ELSE NoOui,
                    reads |-> r.reads]
    /\ UNCHANGED <<eui, other, registry, arg>>

Next ==
    \/ Construct
    \/ SetItem
    \/ GetItem
    \/ SetValue
    \/ SetDialect
    \/ LinkLocal
    \/ Eui64
    \/ Iab
    \/ Oui

Spec == Init /\ [][Next]_vars

(***************************************************************************)
(* Comparison and hash of two EUI objects.                                 *)
(***************************************************************************)
CmpObjects ==
    {EUI__init__(IntArg(v), m, d).val :
        v \in {<<>>, Mac1, Mac3, AllOnes(48)}, m \in {48, 64}, d \in Dialects}
    \cup {EUI__init__(IntArg(v), NoVersion, d).val :
        v \in {<<1, 0, 0, 0, 0, 0, 0>>, Eui64Of3}, d \in {NoDialect, mac_cisco}}

InitCmp ==
    /\ eui \in CmpObjects
    /\ other \in CmpObjects
    /\ last = [op |-> "none"]
    /\ registry = Registry1
    /\ arg = NoArg

Eq ==
    /\ last' = [op |-> "eq", ret |-> __eq__(eui, other)]
    /\ UNCHANGED <<eui, other, registry, arg>>

Ne ==
    /\ last' = [op |-> "ne", ret |-> __ne__(eui, other)]
    /\ UNCHANGED <<eui, other, registry, arg>>

Lt ==
    /\ last' = [op |-> "lt", ret |-> __lt__(eui, other)]
    /\ UNCHANGED <<eui, other, registry, arg>>

Le ==
    /\ last' = [op |-> "le", ret |-> __le__(eui, other)]
    /\ UNCHANGED <<eui, other, registry, arg>>

Gt ==
    /\ last' = [op |-> "gt", ret |-> __gt__(eui, other)]
    /\ UNCHANGED <<eui, other, registry, arg>>

Ge ==
    /\ last' = [op |-> "ge", ret |-> __ge__(eui, other)]
    /\ UNCHANGED <<eui, other, registry, arg>>

Hash ==
    /\ last' = [op |-> "hash", ret |-> <<__hash__(eui), __hash__(other)>>]
    /\ UNCHANGED <<eui, other, registry, arg>>

NextCmp == Eq \/ Ne \/ Lt \/ Le \/ Gt \/ Ge \/ Hash

SpecCmp == InitCmp /\ [][NextCmp]_vars

(***************************************************************************)
(* IAB.split_iab_mac on the values of a bounded set.                       *)
(***************************************************************************)
\* prefix << 12 | user
IabMac(prefix, user) == BigOr(ShiftLeft(FromInt(prefix), 12), FromInt(user))

SplitValues ==
    {FromInt(n) : n \in {0, 1, 4095, IAB_MIN - 1, IAB_MIN, IAB_MIN + 2748, IAB_MAX,
                         IAB_MAX + 1}}
    \cup {IabMac(p, u) :
            p \in {1, IAB_MIN - 1, IAB_MIN, IAB_MIN + 837, IAB_MAX, IAB_MAX + 1},
            u \in {0, 1, 1656, 4095}}
    \cup {<<1>> \o PadTo(IabMac(IAB_MIN + 837, 1656), 6),
          <<1>> \o PadTo(IabMac(IAB_MIN + 837, 0), 6),
          AllOnes(48), AllOnes(64)}

InitSplit ==
    /\ eui = NoEui
    /\ other = NoEui
    /\ last = [op |-> "none"]
    /\ registry = Registry1
    /\ arg \in {[kind |-> "split", eui_int |-> v, strict |-> b] :
                   v \in SplitValues, b \in BOOLEAN}

SplitIabMac ==
    /\ last.op = "none"
    /\ LET r == split_iab_mac(arg.eui_int, arg.strict)
       IN  last' = [op |-> "split_iab_mac", err |-> r.err,
                    ret |-> IF r.err = None THEN r.val ELSE <<>>]
    /\ UNCHANGED <<eui, other, registry, arg>>

NextSplit == SplitIabMac

SpecSplit == InitSplit /\ [][NextSplit]_vars

(***************************************************************************)
(* Construction of OUI and IAB objects against a registry.                 *)
(***************************************************************************)
OrgArgs ==
    {IntArg(FromInt(n)) : n \in {0, 6945, 20674, 524336, OUI_MAX, OUI_MAX + 1,
                                 IAB_MIN, IAB_MIN + 837, IAB_MIN + 2748}}
    \cup {IntArg(v) : v \in {Mac2, Mac3, IabMac(IAB_MIN + 837, 1656), AllOnes(48)}}
    \cup {NegArg(<<1>>),
          StrArg(<<"0", "0", "-", "5", "0", "-", "C", "2">>),
          StrArg(<<"0", "8", "-", "0", "0", "-", "3", "0">>),
          StrArg(<<"F", "F", "-", "F", "F", "-", "F", "F">>),
          StrArg(int_to_str(48, Mac2, mac_eui48)),
          StrArg(int_to_str(48, IabMac(IAB_MIN + 837, 1656), mac_eui48)),
          StrArg(<<"I", "E", "E", "E">>),
          EuiArg([value |-> Mac2, module |-> 48, dialect |-> mac_eui48])}

InitOrg ==
    /\ eui = NoEui
    /\ other = NoEui
    /\ last = [op |-> "none"]
    /\ registry \in Registries
    /\ arg \in OrgArgs

NewOUI ==
    /\ last.op = "none"
    /\ LET r == OUI__init__(registry, arg)
       IN  last' = [op |-> "OUI", err |-> r.res.err,
                    ret |-> IF r.res.err = None THEN r.res.val ELSE NoOui,
                    reads |-> r.reads]
    /\ UNCHANGED <<eui, other, registry, arg>>

NewIAB ==
    /\ last.op = "none"
    /\ \E strict \in BOOLEAN :
          LET r == IAB__init__(registry, arg, strict)
          IN  last' = [op |-> "IAB", strict |-> strict, err |-> r.res.err,
                       ret |-> IF r.res.err = None THEN r.res.val ELSE NoIab,
                       reads |-> r.reads]
    /\ UNCHANGED <<eui, other, registry, arg>>

NextOrg == NewOUI \/ NewIAB

SpecOrg == InitOrg /\ [][NextOrg]_vars

(***************************************************************************)
(* Properties.                                                             *)
(***************************************************************************)

\* C1: a call of ipv6_link_local leaves the value and the version of the EUI
\* exactly as they were before the call, both when the call returns an
\* address and when it raises.
C1_LinkLocalLeavesEui ==
    last.op = "ipv6_link_local" =>
        /\ eui.value = last.pre.value
        /\ eui.module = last.pre.module

\* a call that returned, on an EUI whose first octet is FD: the octet was
\* changed to FF and changed back
C1_Witness ==
    /\ last.op = "ipv6_link_local"
    /\ last.err = None
    /\ Words(last.pre)[1] = 253
    /\ eui = last.pre

\* the 8 octets of the EUI-64 form of an EUI, the first with bit 1 flipped
FlippedInterfaceId(self) ==
    LET w == Words(self)
        e == IF self.module = 48
             THEN SubSeq(w, 1, 3) \o <<255, 254>> \o SubSeq(w, 4, 6) ELSE w
    IN  [e EXCEPT ![1] = XorByte(e[1], 2)]

\* C2: for every EUI, ipv6_link_local returns fe80:0000:0000:0000: followed
\* by the four 4-digit groups of the EUI-64 form of the address whose first
\* octet is the original first octet XOR 2.
C2_LinkLocalFlipsBit1 ==
    last.op = "ipv6_link_local" =>
        /\ last.err = None
        /\ last.ret =
              LinkLocalPrefix
              \o Join([k \in 1..4 |->
                          Hex2(FlippedInterfaceId(last.pre)[2 * k - 1], FALSE)
                          \o Hex2(FlippedInterfaceId(last.pre)[2 * k], FALSE)],
                      <<":">>)

\* 02-00-00-00-00-0C gives the group 0400, where the flipped bit gives 0000
C2_Witness ==
    /\ last.op = "ipv6_link_local"
    /\ Words(last.pre)[1] = 2
    /\ last.err = None
    /\ SubSeq(last.ret, 21, 24) = <<"0", "4", "0", "0">>

\* ((v >> 24) << 40) | (0xFFFE << 24) | (v & 0xFFFFFF)
ExpandedValue(v) ==
    BigOr(BigOr(ShiftLeft(ShiftRight(v, 24), 40), ShiftLeft(FromInt(65534), 24)),
          BigAnd(v, FromInt(16777215)))

\* C3: eui64 of a version-48 EUI with value v returns a version-64 EUI with
\* value ((v >> 24) << 40) | (0xFFFE << 24) | (v & 0xFFFFFF); of a version-64
\* EUI it returns a version-64 EUI with the same value; the receiver is
\* unchanged.
C3_Eui64Expands ==
    last.op = "eui64" =>
        /\ last.err = None
        /\ last.ret.module = 64
        /\ last.ret.value = IF last.pre.module = 48
                            THEN ExpandedValue(last.pre.value)
                            ELSE last.pre.value
        /\ eui = last.pre

\* 00-50-C2-AA-BB-CC becomes 00-50-C2-FF-FE-AA-BB-CC
C3_Witness ==
    /\ last.op = "eui64"
    /\ last.pre.module = 48
    /\ last.pre.value = Mac3
    /\ last.err = None
    /\ last.ret.value = Eui64Of3

\* C4: an integer n without a version hint constructs version 48 when
\* 0 <= n <= 2^48-1 and version 64 when 2^48-1 < n <= 2^64-1; n <= 2^48-1
\* with the hint 64 constructs a version-64 EUI with value n, which is not
\* equal to the version-48 EUI built from n without a hint.
C4_IntegerVersion ==
    (last.op = "EUI" /\ last.addr.kind = "int" /\ ~last.addr.neg) =>
        /\ (last.version = NoVersion /\ BigLeq(last.addr.mag, AllOnes(48))) =>
              /\ last.err = None
              /\ eui.module = 48
              /\ eui.value = last.addr.mag
        /\ (/\ last.version = NoVersion
            /\ BigLt(AllOnes(48), last.addr.mag)
            /\ BigLeq(last.addr.mag, AllOnes(64))) =>
              /\ last.err = None
              /\ eui.module = 64
              /\ eui.value = last.addr.mag
        /\ (last.version = 64 /\ BigLeq(last.addr.mag, AllOnes(48))) =>
              /\ last.err = None
              /\ eui.module = 64
              /\ eui.value = last.addr.mag
              /\ ~__eq__(eui, [value |-> last.addr.mag, module |-> 48,
                               dialect |-> mac_eui48])
              /\ __ne__(eui, [value |-> last.addr.mag, module |-> 48,
                              dialect |-> mac_eui48])

\* 0x0050C2AABBCC with the hint 64
C4_Witness ==
    /\ last.op = "EUI"
    /\ last.addr = IntArg(Mac3)
    /\ last.version = 64
    /\ eui.module = 64
    /\ eui.value = Mac3

\* C5: in every state of an EUI the value lies in [0, 2^48-1] when the
\* version is 48 and in [0, 2^64-1] when it is 64, and no operation on an EUI
\* changes its version.
C5_ValueFitsVersion ==
    /\ [](eui # NoEui =>
            /\ eui.module \in {48, 64}
            /\ \A i \in 1..Len(eui.value) : eui.value[i] \in Byte
            /\ Len(Norm(eui.value)) <= eui.module \div 8)
    /\ [][eui # NoEui => eui'.module = eui.module]_vars

\* a version-48 EUI after 2^48 was refused as its new value
C5_Witness ==
    /\ last.op = "set_value"
    /\ last.value = IntArg(<<1, 0, 0, 0, 0, 0, 0>>)
    /\ last.err = "AddrFormatError"
    /\ eui.module = 48

\* the pair (version, value) as one numeral
Key(a) == <<a.module>> \o PadTo(a.value, 8)

\* C6: ==, !=, <, <=, >, >= of two EUIs are the lexicographic comparison of
\* the pairs (version, value), whatever the dialects; equal EUIs have equal
\* hashes.
C6_ComparesVersionThenValue ==
    /\ last.op = "eq" =>
          last.ret = (eui.module = other.module /\ eui.value = other.value)
    /\ last.op = "ne" =>
          last.ret = ~(eui.module = other.module /\ eui.value = other.value)
    /\ last.op = "lt" => last.ret = LexLt(Key(eui), Key(other))
    /\ last.op = "le" =>
          last.ret = (LexLt(Key(eui), Key(other)) \/ Key(eui) = Key(other))
    /\ last.op = "gt" => last.ret = LexLt(Key(other), Key(eui))
    /\ last.op = "ge" =>
          last.ret = (LexLt(Key(other), Key(eui)) \/ Key(eui) = Key(other))
    /\ (last.op = "hash" /\ eui.module = other.module /\ eui.value = other.value) =>
          last.ret[1] = last.ret[2]

\* a version-48 and a version-64 EUI with one value, in different dialects:
\* the version-48 one is the lesser
C6_Witness ==
    /\ last.op = "lt"
    /\ eui.module = 48
    /\ other.module = 64
    /\ eui.value = other.value
    /\ eui.dialect # other.dialect
    /\ last.ret = TRUE

\* C7: split_iab_mac(value, strict) returns (value, 0) for a value in
\* [0x50C2000, 0x50C2FFF]; otherwise, with prefix = value >> 12 and
\* user = value mod 2^12, it raises ValueError when prefix is outside
\* [0x50C2000, 0x50C2FFF] or when strict is set and user is not 0, and
\* returns (prefix, user) in every other case.
C7_SplitIabMac ==
    last.op = "split_iab_mac" =>
        LET v == arg.eui_int
            prefix == ShiftRight(v, 12)
            user == BigAnd(v, FromInt(4095))
            inRange(x) == BigLeq(FromInt(IAB_MIN), x) /\ BigLeq(x, FromInt(IAB_MAX))
        IN  IF inRange(v) THEN last.err = None /\ last.ret = <<v, <<>>>>
            ELSE IF ~inRange(prefix) THEN last.err = "ValueError"
            ELSE IF arg.strict /\ user # <<>> THEN last.err = "ValueError"
            ELSE last.err = None /\ last.ret = <<prefix, user>>

\* 0x0050C2345678 split leniently into 0x50C2345 and 0x678
C7_Witness ==
    /\ last.op = "split_iab_mac"
    /\ arg.eui_int = IabMac(IAB_MIN + 837, 1656)
    /\ ~arg.strict
    /\ last.ret = <<FromInt(IAB_MIN + 837), FromInt(1656)>>

C9_ResolvedOnConstruction ==
    /\ last.op = "OUI" =>
          /\ (OUI_value(arg).err = None
              /\ OUI_value(arg).val \notin DOMAIN registry.oui_index) =>
                 last.err = "NotRegisteredError" /\ last.ret = NoOui
          /\ last.err = None =>
                /\ last.ret.value \in DOMAIN registry.oui_index
                /\ Len(last.ret.records) = Len(registry.oui_index[last.ret.value])
                /\ \A k \in 1..Len(last.ret.records) :
                      /\ last.ret.records[k].offset =
                            registry.oui_index[last.ret.value][k][1]
                      /\ last.ret.records[k].size =
                            registry.oui_index[last.ret.value][k][2]
                /\ last.reads = registry.oui_index[last.ret.value]
    /\ last.op = "IAB" =>
          /\ (IAB_value(arg, last.strict).err = None
              /\ IAB_value(arg, last.strict).val[1] \notin DOMAIN registry.iab_index) =>
                 last.err = "NotRegisteredError" /\ last.ret = NoIab
          /\ last.err = None =>
                /\ last.ret.value \in DOMAIN registry.iab_index
                /\ last.ret.record.offset = registry.iab_index[last.ret.value][1][1]
                /\ last.ret.record.size = registry.iab_index[last.ret.value][1][2]
                /\ last.reads = <<registry.iab_index[last.ret.value][1]>>

\* an OUI with three registrations
C9_Witness ==
    /\ last.op = "OUI"
    /\ last.err = None
    /\ Len(last.ret.records) = 3

\* C10: is_iab is true exactly if value >> 12 lies in [0x50C2000, 0x50C2FFF]
\* (true for 0x0050C2345000, false for 0x001122334455); when it is true and
\* the block is registered, iab returns an IAB whose value is value >> 12;
\* when it is false, iab returns nothing, without an error and without
\* reading the registry.
C10_IsIabAndIab ==
    last.op = "iab" =>
        LET top == ShiftRight(last.pre.value, 12)
        IN  /\ last.is_iab <=>
                  (BigLeq(FromInt(IAB_MIN), top) /\ BigLeq(top, FromInt(IAB_MAX)))
            /\ last.pre.value = Mac2 => last.is_iab
            /\ last.pre.value = Mac4 => ~last.is_iab
            /\ (last.is_iab /\ top \in DOMAIN registry.iab_index) =>
                  last.err = None /\ last.ret.value = top
            /\ ~last.is_iab =>
                  last.err = None /\ last.ret = NoIab /\ last.reads = <<>>

\* the IAB 0x50C2345 of 00-50-C2-34-50-00
C10_Witness ==
    /\ last.op = "iab"
    /\ last.pre.value = Mac2
    /\ last.is_iab
    /\ last.err = None
    /\ last.ret.value = FromInt(IAB_MIN + 837)

C12_DialectsBeforeBareIntegers ==
    (last.op = "EUI" /\ last.addr.kind = "str" /\ last.version = NoVersion) =>
        LET text == last.addr.text
            parsed48 == str_to_int(48, text)
            parsed64 == str_to_int(64, text)
            number == PyIntOfText(text)
        IN  IF parsed48.err = None
            THEN last.err = None /\ eui.module = 48 /\ eui.value = parsed48.val
            ELSE IF parsed64.err = None
            THEN last.err = None /\ eui.module = 64 /\ eui.value = parsed64.val
            ELSE IF number.err = None /\ InRange(number.val, 48)
            THEN last.err = None /\ eui.module = 48 /\ eui.value = number.val.mag
            ELSE IF number.err = None /\ InRange(number.val, 64)
            THEN last.err = None /\ eui.module = 64 /\ eui.value = number.val.mag
            ELSE last.err = "AddrFormatError" /\ eui = NoEui

\* the 16 hex digits 0011223344556677, an EUI-64 text, were taken as the
\* decimal number 11223344556677 and made a version-48 EUI
C12_Witness ==
    /\ last.op = "EUI"
    /\ last.version = NoVersion
    /\ last.addr = StrArg(<<"0", "0", "1", "1", "2", "2", "3", "3", "4", "4",
                            "5", "5", "6", "6", "7", "7">>)
    /\ str_to_int(64, last.addr.text).err = None
    /\ last.err = None
    /\ eui.module = 48
    /\ eui.value = <<10, 53, 35, 119, 42, 133>>

=============================================================================
